---- MODULE Spec2Model ----
(***************************************************************************)
(* NextStop (src/app.py): a Flask application with form registration and   *)
(* login, a session holding the identity and the last generated itinerary, *)
(* one call to a text-generation service and one to a weather provider.    *)
(*                                                                         *)
(* The session is Flask's default one (line 2 imports flask.session, line  *)
(* 14 sets the signing key, no server-side session extension is set up):   *)
(* every request works on its own copy of the session, read from the       *)
(* browser's cookie when the request arrives, and the response replaces    *)
(* the browser's cookie by that copy when the handler modified it.         *)
(* A request is modelled in steps, one per access to shared state: the     *)
(* arrival (cookie read), the handler (database reads and writes, the      *)
(* outbound calls) and the response (cookie write).  The development       *)
(* server of line 214 is threaded, so requests of one browser may overlap. *)
(*                                                                         *)
(* Not tracked: the "_flashes" session key.  flash() is modelled by the    *)
(* notice of the response and by marking the session modified; templates   *)
(* (not part of src/) consume the flashed messages.                        *)
(*                                                                         *)
(* Taken as given: SECRET_KEY is set (line 14), table User exists (line    *)
(* 213), and every form field the handler reads is present in the request. *)
(***************************************************************************)
EXTENDS Integers, Sequences, FiniteSets, TLC

\* ------------------------------------------------------------ input sets
Emails == {"a@x.org", "b@x.org"}
Names == {"Ann", "Bob"}
Passwords == {"pw1", "pw2"}
Salts == {"s1"}
Destinations == {"Paris", "rome"}
StartDates == {"2025-06-01"}
EndDates == {"2025-06-03"}
Texts == {"**Day 1: Exploring**"}
\* os.getenv("OPENWEATHER_API_KEY"): None (an empty tuple here) when the
\* variable is unset, else its text, which may be empty.
ApiKeys == {<<>>, <<"">>, <<"k3y">>}

\* A single request in flight, and two overlapping requests of one browser.
OneReq == {"r1"}
TwoReqs == {"r1", "r2"}

\* ------------------------------------------------------- python helpers
\* An empty dict (an empty session, an empty set of locals).
EmptyDict == [k \in {} |-> 0]

\* d[k] = v on a dict.
Put(d, k, v) == [x \in (DOMAIN d) \cup {k} |-> IF x = k THEN v ELSE d[x]]

\* str.capitalize() on the cities of the model: first letter upper case,
\* the rest lower case.
Capitalize(city) ==
    CASE city = "Paris" -> "Paris"
      [] city = "rome" -> "Rome"
      [] OTHER -> city

\* ------------------------------------------------------------ passwords
\* The key derivation: a one-way function of salt and password, kept
\* symbolic; two digests are equal iff salt and password are.
PBKDF2(salt, password) == <<"pbkdf2:sha256", salt, password>>

generate_password_hash(password, salt) ==
    [method |-> "pbkdf2:sha256", salt |-> salt, digest |-> PBKDF2(salt, password)]

\* Recomputes the digest of the submitted password under the stored salt.
check_password_hash(pwhash, password) ==
    pwhash.digest = PBKDF2(pwhash.salt, password)

\* ------------------------------------------------------ weather provider
\* What requests.get(url) can produce: a transport exception, or a response
\* with a status and a body that is no JSON, a JSON array, or a JSON object.
CompleteData ==
    [weather |-> <<[description |-> "clear sky", icon |-> "01d"]>>,
     main |-> [temp |-> 21, temp_min |-> 18, temp_max |-> 24, humidity |-> 60],
     wind |-> [speed |-> 3]]

JsonObjects ==
    { CompleteData,
      [weather |-> <<>>,
       main |-> CompleteData.main, wind |-> CompleteData.wind],
      [weather |-> CompleteData.weather, main |-> CompleteData.main],
      [weather |-> CompleteData.weather, wind |-> CompleteData.wind],
      [weather |-> CompleteData.weather,
       main |-> [temp |-> 21, temp_min |-> 18, temp_max |-> 24],
       wind |-> CompleteData.wind],
      [weather |-> <<[description |-> "clear sky"]>>,
       main |-> CompleteData.main, wind |-> CompleteData.wind],
      [cod |-> "404", message |-> "city not found"],
      [cod |-> "500"] }

Bodies ==
    {[json |-> "invalid"], [json |-> "array"]}
      \cup {[json |-> "object", data |-> d] : d \in JsonObjects}

ProviderOutcomes ==
    {[kind |-> "raise", text |-> "Connection refused"]}
      \cup {[kind |-> "response", status |-> s, body |-> b] :
                s \in {200, 404}, b \in Bodies}

\* The outcomes used where the weather record is only carried along.
ProviderCore ==
    { [kind |-> "raise", text |-> "Connection refused"],
      [kind |-> "response", status |-> 200,
       body |-> [json |-> "object", data |-> CompleteData]] }

\* Faulty variant: OPENWEATHER_API_KEY is None, which lets an empty key through.
Falsy_NoneOnly(key) == key = <<>>

\* not OPENWEATHER_API_KEY: unset (None) or empty.
Falsy(key) == key = <<>> \/ key[1] = ""

\* The body of the try block of get_weather_data: the value returned, or
\* the text of the exception raised, in evaluation order.
weather_try(city, o) ==
    IF o.kind = "raise" THEN [raised |-> o.text]
    ELSE IF o.body.json = "invalid"
      THEN [raised |-> "Expecting value: line 1 column 1 (char 0)"]
    ELSE IF o.status # 200
      THEN IF o.body.json = "array"
             THEN [raised |-> "'list' object has no attribute 'get'"]
             ELSE [returned |->
                     [error |-> "API Error: " \o
                        (IF "message" \in DOMAIN o.body.data
                           THEN o.body.data.message ELSE "Unknown error")]]
    ELSE IF o.body.json = "array"
      THEN [raised |-> "list indices must be integers or slices, not str"]
    ELSE LET d == o.body.data IN
      IF "weather" \notin DOMAIN d THEN [raised |-> "'weather'"]
      ELSE IF Len(d.weather) = 0 THEN [raised |-> "list index out of range"]
      ELSE IF "description" \notin DOMAIN d.weather[1] THEN [raised |-> "'description'"]
      ELSE IF "main" \notin DOMAIN d THEN [raised |-> "'main'"]
      ELSE IF "temp" \notin DOMAIN d.main THEN [raised |-> "'temp'"]
      ELSE IF "temp_min" \notin DOMAIN d.main THEN [raised |-> "'temp_min'"]
      ELSE IF "temp_max" \notin DOMAIN d.main THEN [raised |-> "'temp_max'"]
      ELSE IF "humidity" \notin DOMAIN d.main THEN [raised |-> "'humidity'"]
      ELSE IF "wind" \notin DOMAIN d THEN [raised |-> "'wind'"]
      ELSE IF "speed" \notin DOMAIN d.wind THEN [raised |-> "'speed'"]
      ELSE IF "icon" \notin DOMAIN d.weather[1] THEN [raised |-> "'icon'"]
      ELSE [returned |->
              [location |-> Capitalize(city),
               description |-> d.weather[1].description,
               temperature |-> d.main.temp,
               temp_min |-> d.main.temp_min,
               temp_max |-> d.main.temp_max,
               humidity |-> d.main.humidity,
               wind_speed |-> d.wind.speed,
               icon |-> "http://openweathermap.org/img/w/" \o d.weather[1].icon \o ".png"]]

\* Faulty variant: no except clause, the exception leaves the function.
weather_except_Reraise(t) == t

\* The except clause of get_weather_data: every exception of the try block
\* becomes an error record.
weather_except(t) ==
    IF "raised" \in DOMAIN t THEN [returned |-> [error |-> t.raised]] ELSE t

\* get_weather_data(city) with the configured key and the provider's
\* outcome o.  out: what leaves the function, [returned |-> record] or
\* [raised |-> text]; calls: the number of calls of requests.get; seen:
\* the local `response` of the function, the outcome of the call made.
get_weather_data(key, city, o) ==
    IF Falsy(key)
      THEN [out |-> [returned |-> [error |-> "Missing API Key"]], calls |-> 0,
            seen |-> EmptyDict]
      ELSE [out |-> weather_except(weather_try(city, o)), calls |-> 1,
            seen |-> [response |-> o]]

\* ------------------------------------------------------------- responses
Response(status, location, notice, body) ==
    [status |-> status, location |-> location, notice |-> notice, body |-> body]

\* render_template(template, **context)
Render(template, context, notice) ==
    Response(200, "", notice, [template |-> template, context |-> context])

\* redirect(url_for(endpoint)), after flash(notice)
Redirect(location, notice) == Response(302, location, notice, EmptyDict)

\* An exception that leaves the handler: Flask answers 500.
ServerError(exception) == Response(500, "", "", [exception |-> exception])

NoResponse == Response(0, "", "", EmptyDict)

\* ----------------------------------------------------------------- state
VARIABLES
    users,                \* the rows of table User, in insertion order
    registered,           \* history: registered[i] is the plain password of users[i]
    OPENWEATHER_API_KEY,  \* line 25, read once at start-up
    cookie,               \* the session as the browser holds it
    cookieTdBy,           \* history: the user id cookie's travel_data was generated under (0: none)
    lastGen,              \* history: <<bundle>> of the last successful generation answered
    loggedOut,            \* history: a logout was answered and no successful login since
    reqs                  \* the requests in flight, by connection

vars == <<users, registered, OPENWEATHER_API_KEY, cookie, cookieTdBy, lastGen, loggedOut, reqs>>

\* The database, and what the browser holds.
db == <<users, registered>>
browser == <<cookie, cookieTdBy, lastGen, loggedOut>>

\* A connection with no request in flight.
Idle ==
    [pc |-> "idle", route |-> "", method |-> "", form |-> EmptyDict,
     locals |-> EmptyDict, sess |-> EmptyDict, modified |-> FALSE, td_by |-> 0,
     resp |-> NoResponse, genai_calls |-> 0, weather_calls |-> 0]

\* ------------------------------------------------------------- database
\* User.query.filter_by(email=email).first(): the index of the row, 0 for None.
first_by_email(rows, email) ==
    LET S == {i \in 1..Len(rows) : rows[i].email = email}
    IN IF S = {} THEN 0 ELSE CHOOSE i \in S : \A j \in S : i <= j

\* db.session.add(new_user); db.session.commit(): the primary key is the
\* next integer; the unique index on email (line 31) rejects a second row
\* with the same email with an IntegrityError and inserts nothing.
db_add_commit(rows, name, email, password) ==
    IF \E i \in 1..Len(rows) : rows[i].email = email
      THEN [rows |-> rows, error |-> "IntegrityError"]
      ELSE [rows |-> Append(rows, [id |-> Len(rows) + 1, name |-> name,
                                   email |-> email, password |-> password]),
            error |-> ""]

\* ------------------------------------------------------------- handlers
\* Each handler is a function of the request q as it stands (its session
\* copy included) and of what the handler reads; it yields the request
\* with its response set, or waiting for its next step.

\* Faulty variant: login() that looks the user up and never checks the password.
login_EmailOnly(q, rows, method, email, password) ==
    IF method = "GET"
      THEN [q EXCEPT !.pc = "respond", !.method = "GET",
                     !.resp = Render("login.html", EmptyDict, "")]
      ELSE LET u == first_by_email(rows, email)
               p == [q EXCEPT !.pc = "respond", !.method = "POST",
                              !.form = [email |-> email, password |-> password],
                              !.modified = TRUE]
           IN IF u # 0
                THEN [p EXCEPT !.sess = Put(Put(q.sess, "user_id", rows[u].id),
                                            "user_name", rows[u].name),
                               !.resp = Redirect("/dashboard",
                                                 "Welcome, " \o rows[u].name \o "!")]
                ELSE [p EXCEPT !.resp = Render("login.html", EmptyDict,
                                               "Invalid email or password!")]

\* login(), lines 60-75.
login(q, rows, method, email, password) ==
    IF method = "GET"
      THEN [q EXCEPT !.pc = "respond", !.method = "GET",
                     !.resp = Render("login.html", EmptyDict, "")]
      ELSE LET u == first_by_email(rows, email)
               p == [q EXCEPT !.pc = "respond", !.method = "POST",
                              !.form = [email |-> email, password |-> password],
                              !.modified = TRUE]
           IN IF u # 0 /\ check_password_hash(rows[u].password, password)
                THEN [p EXCEPT !.sess = Put(Put(q.sess, "user_id", rows[u].id),
                                            "user_name", rows[u].name),
                               !.resp = Redirect("/dashboard",
                                                 "Welcome, " \o rows[u].name \o "!")]
                ELSE [p EXCEPT !.resp = Render("login.html", EmptyDict,
                                               "Invalid email or password!")]

\* Faulty variant: register() without the comparison of the two passwords.
register_NoMatchCheck(q, rows, method, name, email, password, password2, salt) ==
    IF method = "GET"
      THEN [q EXCEPT !.pc = "respond", !.method = "GET",
                     !.resp = Render("register.html", EmptyDict, "")]
      ELSE LET p == [q EXCEPT !.method = "POST",
                              !.form = [name |-> name, email |-> email,
                                        password |-> password, password2 |-> password2]]
           IN IF first_by_email(rows, email) # 0
                THEN [p EXCEPT !.pc = "respond", !.modified = TRUE,
                               !.resp = Redirect("/register", "Email already registered!")]
                ELSE [p EXCEPT !.pc = "commit",
                               !.locals = [hashed_password |->
                                              generate_password_hash(password, salt)]]

\* register(), lines 77-96 and 106: up to the existence check.
register(q, rows, method, name, email, password, password2, salt) ==
    IF method = "GET"
      THEN [q EXCEPT !.pc = "respond", !.method = "GET",
                     !.resp = Render("register.html", EmptyDict, "")]
      ELSE LET p == [q EXCEPT !.method = "POST",
                              !.form = [name |-> name, email |-> email,
                                        password |-> password, password2 |-> password2]]
           IN IF password # password2
                THEN [p EXCEPT !.pc = "respond", !.modified = TRUE,
                               !.resp = Redirect("/register", "Passwords do not match!")]
              ELSE IF first_by_email(rows, email) # 0
                THEN [p EXCEPT !.pc = "respond", !.modified = TRUE,
                               !.resp = Redirect("/register", "Email already registered!")]
              ELSE [p EXCEPT !.pc = "commit",
                             !.locals = [hashed_password |->
                                            generate_password_hash(password, salt)]]

\* register(), lines 98-104: the insert and what follows it.
register_commit(q, rows) ==
    LET c == db_add_commit(rows, q.form.name, q.form.email, q.locals.hashed_password)
    IN IF c.error # ""
         THEN [q EXCEPT !.pc = "respond", !.resp = ServerError(c.error)]
         ELSE [q EXCEPT !.pc = "respond", !.modified = TRUE,
                        !.resp = Redirect("/login",
                                          "Registration successful! You can now log in.")]

\* logout(), lines 108-112.
logout(q) ==
    [q EXCEPT !.pc = "respond", !.method = "GET", !.sess = EmptyDict, !.td_by = 0,
              !.modified = TRUE,
              !.resp = Redirect("/", "You have been logged out!")]

\* Faulty variant: dashboard() without the login guard.
dashboard_NoGuard(q) ==
    [q EXCEPT !.pc = "respond", !.method = "GET",
              !.resp = Render("dashboard.html",
                              [travel_data |->
                                 IF "travel_data" \in DOMAIN q.sess
                                   THEN q.sess["travel_data"] ELSE EmptyDict],
                              "")]

\* dashboard(), lines 43-50.
dashboard(q) ==
    IF "user_id" \notin DOMAIN q.sess
      THEN [q EXCEPT !.pc = "respond", !.method = "GET", !.modified = TRUE,
                     !.resp = Redirect("/login", "Please login to access your dashboard.")]
      ELSE [q EXCEPT !.pc = "respond", !.method = "GET",
                     !.resp = Render("dashboard.html",
                                     [travel_data |->
                                        IF "travel_data" \in DOMAIN q.sess
                                          THEN q.sess["travel_data"] ELSE EmptyDict],
                                     "")]

\* What model.generate_content(prompt) and response.text can produce.
GenaiOutcomes ==
    {[kind |-> "raise", text |-> "ResourceExhausted"]}
      \cup {[kind |-> "text", text |-> t] : t \in Texts}

\* Faulty variant: generate_itinerary() fetching the weather before it
\* asks for the text.
generate_itinerary_WeatherFirst(q, key, destination, start_date, end_date, g, o) ==
    IF "user_id" \notin DOMAIN q.sess
      THEN [q EXCEPT !.pc = "respond", !.method = "POST", !.modified = TRUE,
                     !.resp = Redirect("/login", "Please login to generate an itinerary.")]
      ELSE LET w == get_weather_data(key, destination, o)
               p == [q EXCEPT !.pc = "respond", !.method = "POST",
                              !.form = [destination |-> destination,
                                        startDate |-> start_date, endDate |-> end_date],
                              !.weather_calls = w.calls, !.locals = w.seen,
                              !.genai_calls = 1]
           IN IF "raised" \in DOMAIN w.out
                THEN [p EXCEPT !.genai_calls = 0, !.resp = ServerError(w.out.raised)]
              ELSE IF g.kind = "raise"
                THEN [p EXCEPT !.resp = ServerError(g.text)]
              ELSE [p EXCEPT !.sess = Put(q.sess, "travel_data",
                                          [destination |-> destination,
                                           start_date |-> start_date,
                                           end_date |-> end_date,
                                           itinerary |-> g.text,
                                           weather |-> w.out.returned]),
                             !.td_by = q.sess["user_id"],
                             !.modified = TRUE,
                             !.resp = Redirect("/dashboard", "")]

\* generate_itinerary(), lines 114-159, with the outcome g of the
\* text-generation call and the outcome o of the weather provider.
generate_itinerary(q, key, destination, start_date, end_date, g, o) ==
    IF "user_id" \notin DOMAIN q.sess
      THEN [q EXCEPT !.pc = "respond", !.method = "POST", !.modified = TRUE,
                     !.resp = Redirect("/login", "Please login to generate an itinerary.")]
      ELSE LET p == [q EXCEPT !.pc = "respond", !.method = "POST",
                              !.form = [destination |-> destination,
                                        startDate |-> start_date, endDate |-> end_date],
                              !.genai_calls = 1]
               w == get_weather_data(key, destination, o)
           IN IF g.kind = "raise"
                THEN [p EXCEPT !.resp = ServerError(g.text)]
              ELSE IF "raised" \in DOMAIN w.out
                THEN [p EXCEPT !.weather_calls = w.calls, !.locals = w.seen,
                               !.resp = ServerError(w.out.raised)]
              ELSE [p EXCEPT !.weather_calls = w.calls, !.locals = w.seen,
                             !.sess = Put(q.sess, "travel_data",
                                          [destination |-> destination,
                                           start_date |-> start_date,
                                           end_date |-> end_date,
                                           itinerary |-> g.text,
                                           weather |-> w.out.returned]),
                             !.td_by = q.sess["user_id"],
                             !.modified = TRUE,
                             !.resp = Redirect("/dashboard", "")]

\* get_weather(), lines 161-171; city is data.get("city", "").
get_weather(q, key, city, o) ==
    LET p == [q EXCEPT !.pc = "respond", !.route = "/get_weather", !.method = "POST",
                       !.form = [city |-> city]]
        w == get_weather_data(key, city, o)
    IN IF city = ""
         THEN [p EXCEPT !.resp = Response(400, "", "", [json |-> [error |-> "City not provided"]])]
       ELSE IF "raised" \in DOMAIN w.out
         THEN [p EXCEPT !.weather_calls = w.calls, !.locals = w.seen,
                        !.resp = ServerError(w.out.raised)]
       ELSE [p EXCEPT !.weather_calls = w.calls, !.locals = w.seen,
                      !.resp = Response(200, "", "", [json |-> w.out.returned])]

\* The routes that never touch the session: lines 35-41, 52-58, 199-209.
StaticRoutes == {"/", "/index", "/about", "/contact", "/blog", "/trip_planner", "/deals"}

static_page(q, route) ==
    [q EXCEPT !.pc = "respond", !.route = route, !.method = "GET",
              !.resp =
                CASE route = "/" -> Render("homepage.html", EmptyDict, "")
                  [] route = "/index" -> Render("index.html", EmptyDict, "")
                  [] route = "/about" -> Render("about.html", EmptyDict, "")
                  [] route = "/contact" -> Render("contact.html", EmptyDict, "")
                  [] route = "/blog" ->
                       Response(200, "", "", [html |-> "<h1>Blog Page Coming Soon!</h1>"])
                  [] route = "/trip_planner" ->
                       Response(200, "", "", [html |-> "<h1>Trip Planner Page Coming Soon!</h1>"])
                  [] OTHER ->
                       Response(200, "", "", [html |-> "<h1>Deals Page Coming Soon!</h1>"])]

\* -------------------------------------------------------------- actions
SessionRoutes == {"/login", "/register", "/logout", "/dashboard", "/generate_itinerary"}

\* A request for one of `routes` arrives on connection r: Flask opens the
\* session from the cookie the browser sent.
OpenSession(r, routes) ==
    /\ reqs[r].pc = "idle"
    /\ \E route \in routes :
         reqs' = [reqs EXCEPT ![r] = [Idle EXCEPT !.pc = "open", !.route = route,
                                                  !.sess = cookie, !.td_by = cookieTdBy]]
    /\ UNCHANGED <<db, OPENWEATHER_API_KEY, browser>>

Login(r) ==
    /\ reqs[r].pc = "open" /\ reqs[r].route = "/login"
    /\ \E method \in {"GET", "POST"}, email \in Emails, password \in Passwords :
         reqs' = [reqs EXCEPT ![r] = login(reqs[r], users, method, email, password)]
    /\ UNCHANGED <<db, OPENWEATHER_API_KEY, browser>>

Register(r) ==
    /\ reqs[r].pc = "open" /\ reqs[r].route = "/register"
    /\ \E method \in {"GET", "POST"}, name \in Names, email \in Emails,
          password \in Passwords, password2 \in Passwords, salt \in Salts :
         reqs' = [reqs EXCEPT ![r] = register(reqs[r], users, method, name, email,
                                              password, password2, salt)]
    /\ UNCHANGED <<db, OPENWEATHER_API_KEY, browser>>

RegisterCommit(r) ==
    /\ reqs[r].pc = "commit"
    /\ LET c == db_add_commit(users, reqs[r].form.name, reqs[r].form.email,
                              reqs[r].locals.hashed_password)
       IN /\ users' = c.rows
          /\ registered' = IF c.error = "" THEN Append(registered, reqs[r].form.password)
                                           ELSE registered
    /\ reqs' = [reqs EXCEPT ![r] = register_commit(reqs[r], users)]
    /\ UNCHANGED <<OPENWEATHER_API_KEY, browser>>

Logout(r) ==
    /\ reqs[r].pc = "open" /\ reqs[r].route = "/logout"
    /\ reqs' = [reqs EXCEPT ![r] = logout(reqs[r])]
    /\ UNCHANGED <<db, OPENWEATHER_API_KEY, browser>>

Dashboard(r) ==
    /\ reqs[r].pc = "open" /\ reqs[r].route = "/dashboard"
    /\ reqs' = [reqs EXCEPT ![r] = dashboard(reqs[r])]
    /\ UNCHANGED <<db, OPENWEATHER_API_KEY, browser>>

GenerateItinerary(r, providers) ==
    /\ reqs[r].pc = "open" /\ reqs[r].route = "/generate_itinerary"
    /\ \E destination \in Destinations, start_date \in StartDates, end_date \in EndDates,
          g \in GenaiOutcomes, o \in providers :
         reqs' = [reqs EXCEPT ![r] =
                    generate_itinerary(reqs[r], OPENWEATHER_API_KEY, destination,
                                       start_date, end_date, g, o)]
    /\ UNCHANGED <<db, OPENWEATHER_API_KEY, browser>>

GetWeather(r, providers) ==
    /\ reqs[r].pc = "idle"
    /\ \E city \in Destinations \cup {""}, o \in providers :
         reqs' = [reqs EXCEPT ![r] = get_weather(Idle, OPENWEATHER_API_KEY, city, o)]
    /\ UNCHANGED <<db, OPENWEATHER_API_KEY, browser>>

StaticPage(r) ==
    /\ reqs[r].pc = "idle"
    /\ \E route \in StaticRoutes :
         reqs' = [reqs EXCEPT ![r] = static_page(Idle, route)]
    /\ UNCHANGED <<db, OPENWEATHER_API_KEY, browser>>

\* Whether q answers a generation that succeeded.
Generated(q) ==
    q.route = "/generate_itinerary" /\ q.resp.status = 302 /\ q.resp.location = "/dashboard"

\* Whether q answers a login that succeeded.
LoggedIn(q) ==
    q.route = "/login" /\ q.resp.status = 302 /\ q.resp.location = "/dashboard"

\* The session the browser holds once the response of q reached it: Flask
\* sends the session back (Set-Cookie) only when the handler modified it.
save_session(q, held) == IF q.modified THEN q.sess ELSE held

\* The response of r reaches the browser.
SaveSession(r) ==
    /\ reqs[r].pc = "respond"
    /\ cookie' = save_session(reqs[r], cookie)
    /\ cookieTdBy' = IF reqs[r].modified THEN reqs[r].td_by ELSE cookieTdBy
    /\ lastGen' = IF Generated(reqs[r]) THEN <<reqs[r].sess["travel_data"]>> ELSE lastGen
    /\ loggedOut' = IF reqs[r].route = "/logout" THEN TRUE
                    ELSE IF LoggedIn(reqs[r]) THEN FALSE
                    ELSE loggedOut
    /\ reqs' = [reqs EXCEPT ![r] = Idle]
    /\ UNCHANGED <<db, OPENWEATHER_API_KEY>>

\* -------------------------------------------------------- specifications
\* Two users as two registrations leave them.
TwoUsers ==
    << [id |-> 1, name |-> "Ann", email |-> "a@x.org",
        password |-> generate_password_hash("pw1", "s1")],
       [id |-> 2, name |-> "Bob", email |-> "b@x.org",
        password |-> generate_password_hash("pw2", "s1")] >>

InitWith(rows, plain, keys) ==
    /\ users = rows
    /\ registered = plain
    /\ OPENWEATHER_API_KEY \in keys
    /\ cookie = EmptyDict
    /\ cookieTdBy = 0
    /\ lastGen = <<>>
    /\ loggedOut = FALSE
    /\ reqs = [r \in TwoReqs |-> Idle]

\* The whole application, one request at a time.
Init == InitWith(<<>>, <<>>, ApiKeys)

Next ==
    \E r \in OneReq :
        \/ OpenSession(r, SessionRoutes)
        \/ Login(r)
        \/ Register(r)
        \/ RegisterCommit(r)
        \/ Logout(r)
        \/ Dashboard(r)
        \/ GenerateItinerary(r, ProviderCore)
        \/ GetWeather(r, ProviderCore)
        \/ StaticPage(r)
        \/ SaveSession(r)

Spec == Init /\ [][Next]_vars

\* Registration and login with two overlapping requests.
NextAuth ==
    \E r \in TwoReqs :
        \/ OpenSession(r, {"/login", "/register", "/logout", "/dashboard"})
        \/ Login(r)
        \/ Register(r)
        \/ RegisterCommit(r)
        \/ Logout(r)
        \/ Dashboard(r)
        \/ SaveSession(r)

InitAuth == InitWith(<<>>, <<>>, {<<"k3y">>})

SpecAuth == InitAuth /\ [][NextAuth]_vars

\* The session of a browser with two overlapping requests, two users
\* being registered.
InitSession == InitWith(TwoUsers, <<"pw1", "pw2">>, {<<"k3y">>})

NextSession ==
    \E r \in TwoReqs :
        \/ OpenSession(r, {"/login", "/logout", "/dashboard", "/generate_itinerary"})
        \/ Login(r)
        \/ Logout(r)
        \/ Dashboard(r)
        \/ GenerateItinerary(r, ProviderCore)
        \/ SaveSession(r)

SpecSession == InitSession /\ [][NextSession]_vars

\* The weather lookup under every configuration and provider outcome, from
\* the JSON endpoint and from the generation of a logged-in user.
InitWeather == InitWith(TwoUsers, <<"pw1", "pw2">>, ApiKeys)

NextWeather ==
    \E r \in OneReq :
        \/ OpenSession(r, {"/login", "/generate_itinerary"})
        \/ Login(r)
        \/ GenerateItinerary(r, ProviderOutcomes)
        \/ GetWeather(r, ProviderOutcomes)
        \/ SaveSession(r)

SpecWeather == InitWeather /\ [][NextWeather]_vars

\* --------------------------------------------------------------- claims
\* The identity a session holds.
Identity(sess) == [k \in (DOMAIN sess) \cap {"user_id", "user_name"} |-> sess[k]]

\* No weather key is configured: the variable is unset or empty.
NoKeyConfigured == OPENWEATHER_API_KEY \in {<<>>, <<"">>}

\* The answer of the login guard of dashboard and generate_itinerary.
LoginRequired(resp) ==
    /\ resp.status = 302 /\ resp.location = "/login"
    /\ resp.notice \in {"Please login to access your dashboard.",
                        "Please login to generate an itinerary."}

\* No two rows of User share an email.
EmailsUnique ==
    \A i, j \in 1..Len(users) : users[i].email = users[j].email => i = j

\* C1: a register request (with matching passwords) whose email is in the
\* user store when the request checks it or inserts its record is answered
\* with the notice "Email already registered!" and a redirect to the
\* register form, and creates no record; the store never holds two users
\* with the same email.
C1_DuplicateEmailGetsConflictNotice ==
    /\ []EmailsUnique
    /\ [][\A r \in TwoReqs :
            ( /\ reqs[r].route = "/register"
              /\ reqs[r].pc \in {"open", "commit"}
              /\ reqs'[r].pc = "respond"
              /\ reqs'[r].method = "POST"
              /\ reqs'[r].form.password = reqs'[r].form.password2
              /\ first_by_email(users, reqs'[r].form.email) # 0 )
            => ( /\ reqs'[r].resp = Redirect("/register", "Email already registered!")
                 /\ users' = users )]_vars

\* C2: a register request whose two password fields differ is answered with
\* the notice "Passwords do not match!" and a redirect to the register form,
\* never reaches the insert, and no step of it changes the user store.
C2_MismatchCreatesNoRecord ==
    [][\A r \in TwoReqs :
         /\ ( /\ reqs[r].route = "/register" /\ reqs[r].pc = "open"
              /\ reqs'[r].pc # "open"
              /\ reqs'[r].method = "POST"
              /\ reqs'[r].form.password # reqs'[r].form.password2 )
            => ( /\ reqs'[r].pc = "respond"
                 /\ reqs'[r].resp = Redirect("/register", "Passwords do not match!")
                 /\ users' = users )
         /\ ( /\ reqs[r].route = "/register" /\ reqs[r].pc \in {"commit", "respond"}
              /\ reqs[r].method = "POST"
              /\ reqs[r].form.password # reqs[r].form.password2
              /\ reqs'[r] # reqs[r] )
            => users' = users]_vars

\* A mismatching register request is being answered while the store holds
\* a record with the submitted email.
C2_Witness ==
    \E r \in TwoReqs :
        /\ reqs[r].pc = "respond" /\ reqs[r].route = "/register"
        /\ reqs[r].method = "POST"
        /\ reqs[r].form.password # reqs[r].form.password2
        /\ first_by_email(users, reqs[r].form.email) # 0

\* C3: a login POST sets user_id and user_name to those of the matching
\* record and redirects to the dashboard iff a user with the submitted email
\* exists and the submitted password is the one that user registered with;
\* otherwise it shows "Invalid email or password!" and the identity of the
\* session is the one the request arrived with.  The response hands that
\* session to the browser.
C3_LoginIffRegisteredPassword ==
    [][\A r \in TwoReqs :
         /\ ( /\ reqs[r].route = "/login" /\ reqs[r].pc = "open"
              /\ reqs'[r].pc = "respond" /\ reqs'[r].method = "POST" )
            => LET q == reqs'[r]
                   M == {i \in 1..Len(users) :
                           /\ users[i].email = q.form.email
                           /\ registered[i] = q.form.password}
               IN /\ LoggedIn(q) <=> M # {}
                  /\ LoggedIn(q) =>
                       \E i \in M : Identity(q.sess) =
                                      [user_id |-> users[i].id, user_name |-> users[i].name]
                  /\ ~LoggedIn(q) =>
                       /\ q.resp.status = 200
                       /\ q.resp.notice = "Invalid email or password!"
                       /\ Identity(q.sess) = Identity(reqs[r].sess)
         /\ ( /\ reqs[r].route = "/login" /\ reqs[r].pc = "respond"
              /\ reqs[r].method = "POST" /\ reqs'[r].pc = "idle" )
            => Identity(cookie') = Identity(reqs[r].sess)]_vars

\* A login succeeds while two users are registered.
C3_Witness ==
    \E r \in TwoReqs :
        /\ reqs[r].pc = "respond" /\ LoggedIn(reqs[r])
        /\ Len(users) = 2
        /\ reqs[r].sess["user_id"] = 2

\* C4: once a logout is answered, and until a later login succeeds, the
\* session of the browser holds no identity and no TravelData (so that
\* /dashboard redirects to /login).
C4_ClearedUntilLogin ==
    loggedOut => /\ "user_id" \notin DOMAIN cookie
                 /\ "user_name" \notin DOMAIN cookie
                 /\ "travel_data" \notin DOMAIN cookie

\* C5: the TravelData bundle of the session, if present, is the bundle of
\* the most recent successful generation request answered to that browser.
C5_BundleIsLastGeneration ==
    "travel_data" \in DOMAIN cookie => lastGen = <<cookie["travel_data"]>>

\* C6: a request to /dashboard or /generate_itinerary of a session without
\* identity is redirected to /login, calls neither the text-generation nor
\* the weather service and leaves the session without TravelData; a request
\* to any other route of an anonymous browser is not sent to /login for
\* want of an identity.
C6_OnlyGuardedRoutesRequireLogin ==
    [][\A r \in OneReq :
         ( /\ reqs[r].pc \in {"idle", "open"} /\ reqs'[r].pc \in {"respond", "commit"}
           /\ "user_id" \notin DOMAIN (IF reqs[r].pc = "idle" THEN cookie ELSE reqs[r].sess) )
         => LET q == reqs'[r]
            IN IF q.route \in {"/dashboard", "/generate_itinerary"}
                 THEN /\ LoginRequired(q.resp)
                      /\ q.genai_calls = 0 /\ q.weather_calls = 0
                      /\ "travel_data" \notin DOMAIN q.sess
                      /\ Identity(q.sess) = EmptyDict
                 ELSE q.pc = "respond" => ~LoginRequired(q.resp) /\ q.resp.status # 500]_vars

\* An anonymous generation request is being redirected.
C6_Witness ==
    \E r \in OneReq :
        /\ reqs[r].pc = "respond" /\ reqs[r].route = "/generate_itinerary"
        /\ "user_id" \notin DOMAIN reqs[r].sess
        /\ "user_id" \notin DOMAIN cookie
        /\ Len(users) > 0

\* The record get_weather_data returned to the request q.
WeatherOf(q) ==
    IF q.route = "/get_weather" THEN q.resp.body.json
    ELSE q.sess["travel_data"].weather

\* q is answered after calling get_weather_data.
LookedUpWeather(q) ==
    /\ q.pc = "respond"
    /\ \/ q.route = "/get_weather" /\ q.form.city # ""
       \/ q.route = "/generate_itinerary" /\ q.genai_calls = 1
          /\ q.resp # ServerError("ResourceExhausted")

\* C7: with no weather key configured, every call of get_weather_data
\* returns {error: "Missing API Key"} and no call reaches the provider.
C7_MissingKeyNoCall ==
    NoKeyConfigured =>
      \A r \in OneReq :
          /\ reqs[r].weather_calls = 0
          /\ LookedUpWeather(reqs[r]) =>
               /\ reqs[r].resp.status # 500
               /\ WeatherOf(reqs[r]) = [error |-> "Missing API Key"]

\* A generation is answered with the key set to the empty string.
C7_Witness ==
    /\ OPENWEATHER_API_KEY = <<"">>
    /\ \E r \in OneReq : LookedUpWeather(reqs[r]) /\ reqs[r].route = "/generate_itinerary"

WeatherKeys ==
    {"location", "description", "temperature", "temp_min", "temp_max",
     "humidity", "wind_speed", "icon"}

\* What holds of every weather lookup: no exception leaves it, the record
\* is the full one or an error alone, and a generation stores its bundle
\* with whatever record it received.
C8_NeverRaises(q) ==
    /\ q.resp.status # 500
    /\ DOMAIN WeatherOf(q) = WeatherKeys \/ DOMAIN WeatherOf(q) = {"error"}
    /\ q.route = "/generate_itinerary" =>
         /\ Generated(q)
         /\ q.sess["travel_data"].destination = q.form.destination
    /\ q.weather_calls = 1 =>
         LET o == q.locals.response
         IN /\ o.kind = "raise" => WeatherOf(q) = [error |-> o.text]
            /\ (o.kind = "response" /\ o.status = 200)
               => IF o.body = [json |-> "object", data |-> CompleteData]
                    THEN /\ DOMAIN WeatherOf(q) = WeatherKeys
                         /\ WeatherOf(q).location = Capitalize(q.form[
                               IF q.route = "/get_weather" THEN "city" ELSE "destination"])
                    ELSE DOMAIN WeatherOf(q) = {"error"}

\* The text 'API Error: <provider message>' for the body of a response.
ApiError(body) ==
    "API Error: " \o (IF body.json = "object" /\ "message" \in DOMAIN body.data
                        THEN body.data.message ELSE "Unknown error")

\* C8 as stated: as C8_NeverRaises, and every answer of the provider with a
\* status other than 200 yields 'API Error: <provider message>'.
C8_Non200IsApiError ==
    \A r \in OneReq :
        LookedUpWeather(reqs[r]) =>
          /\ C8_NeverRaises(reqs[r])
          /\ ( /\ reqs[r].weather_calls = 1
               /\ reqs[r].locals.response.kind = "response"
               /\ reqs[r].locals.response.status # 200 )
             => WeatherOf(reqs[r]) = [error |-> ApiError(reqs[r].locals.response.body)]

\* C8 amended: the answer 'API Error: <provider message>' is that of a
\* status other than 200 whose body is a JSON object ("Unknown error" when
\* it carries no message); a body that is no JSON object yields the error
\* record of the exception it causes, whatever the status.
C8_Non200ObjectIsApiError ==
    \A r \in OneReq :
        LookedUpWeather(reqs[r]) =>
          /\ C8_NeverRaises(reqs[r])
          /\ ( /\ reqs[r].weather_calls = 1
               /\ reqs[r].locals.response.kind = "response" )
             => LET o == reqs[r].locals.response
                IN /\ (o.status # 200 /\ o.body.json = "object")
                      => WeatherOf(reqs[r]) = [error |-> ApiError(o.body)]
                   /\ o.body.json # "object"
                      => /\ DOMAIN WeatherOf(reqs[r]) = {"error"}
                         /\ WeatherOf(reqs[r]) # [error |-> ApiError(o.body)]

\* A generation is answered whose weather lookup met a 404 with a message:
\* the bundle is stored with the error record.
C8_Witness ==
    \E r \in OneReq :
        /\ LookedUpWeather(reqs[r]) /\ reqs[r].route = "/generate_itinerary"
        /\ reqs[r].weather_calls = 1
        /\ reqs[r].locals.response.kind = "response"
        /\ reqs[r].locals.response.status = 404
        /\ reqs[r].sess["travel_data"].weather = [error |-> "API Error: city not found"]

\* C9: a generation whose text-generation call fails is answered with a
\* failure after that one call, without any weather lookup and with the
\* session as the request found it; its response leaves the session of
\* the browser, TravelData and identity, as it is.
C9_FailedGenerationChangesNothing ==
    [][\A r \in TwoReqs :
         /\ ( /\ reqs[r].route = "/generate_itinerary" /\ reqs[r].pc = "open"
              /\ reqs'[r].pc = "respond"
              /\ reqs'[r].resp.status = 500 )
            => /\ reqs'[r].resp = ServerError("ResourceExhausted")
               /\ reqs'[r].genai_calls = 1
               /\ reqs'[r].weather_calls = 0
               /\ reqs'[r].sess = reqs[r].sess
               /\ ~reqs'[r].modified
         /\ ( /\ reqs[r].route = "/generate_itinerary" /\ reqs[r].pc = "respond"
              /\ reqs[r].resp.status = 500
              /\ reqs'[r].pc = "idle" )
            => cookie' = cookie]_vars

\* A failed generation is being answered in a session that holds the
\* bundle of an earlier generation.
C9_Witness ==
    \E r \in TwoReqs :
        /\ reqs[r].pc = "respond" /\ reqs[r].route = "/generate_itinerary"
        /\ reqs[r].resp.status = 500
        /\ "travel_data" \in DOMAIN reqs[r].sess
        /\ "travel_data" \in DOMAIN cookie

\* C10: the TravelData an authenticated session holds, and the dashboard
\* renders, was generated under the identity the session has now.
C10_TravelDataOfCurrentUser ==
    /\ ("user_id" \in DOMAIN cookie /\ "travel_data" \in DOMAIN cookie)
         => cookieTdBy = cookie["user_id"]
    /\ \A r \in TwoReqs :
         ( /\ reqs[r].pc = "respond" /\ reqs[r].route = "/dashboard"
           /\ reqs[r].resp.status = 200
           /\ "travel_data" \in DOMAIN reqs[r].sess )
         => reqs[r].td_by = reqs[r].sess["user_id"]

====
